---- MODULE Spec2Model ----
(***************************************************************************)
(* Govee LAN light integration: the Device Client (api.py), the State      *)
(* Coordinator (coordinator.py) and the light entity's command handlers    *)
(* (light.py), as asyncio tasks of one event loop sharing the host's UDP    *)
(* listen port.                                                            *)
(***************************************************************************)
EXTENDS Integers, Sequences, FiniteSets, TLC

(* ------------------------------ const.py ------------------------------ *)
TIMEOUT_STATUS == 2
MAX_RETRIES == 3
MIN_BRIGHTNESS_GOVEE == 1
MAX_BRIGHTNESS_GOVEE == 100

(* ------------------------------ bounds -------------------------------- *)
\* update_local_state calls made by callers outside the modelled handlers
MaxLocalUpdates == 1
\* operations started by the user task of a client (light service calls,
\* immediate refreshes)
MaxUserOps == 1

\* update_local_state calls made in a row on a fresh coordinator
MaxLocalCalls == 3

\* command methods of the client called in a row by one caller
MaxClientCalls == 2

\* datagrams one discover_devices call receives before its deadline
MaxReplies == 3

(* --------------------------- clients, tasks --------------------------- *)
\* One GoveeLanApi + GoveeLanLightCoordinator + GoveeLanLight per config entry.
Clients == {"A", "B"}

\* GoveeLanApi.__init__: self._host
Host(c) == IF c = "A" THEN "ipA" ELSE "ipB"

\* A sender that is no configured device.
ForeignAddr == "ipX"

\* The periodic refresh of each coordinator (update_interval) ...
PollTasks == {"pollA", "pollB"}
\* ... and the service calls / out-of-band refreshes made on an entity.
UserTasks == {"userA"}
Tasks == PollTasks \cup UserTasks

ClientOf(t) == IF t \in {"pollA", "userA"} THEN "A" ELSE "B"

NoTask == "none"

(* ------------------------------ values -------------------------------- *)
\* api.py GoveeDeviceState
DeviceState(on, brightness, color, kelvin) ==
  [on |-> on, brightness |-> brightness, color |-> color,
   color_temp_kelvin |-> kelvin]

\* coordinator.py __init__: the initial locally tracked state
InitialLocalState == DeviceState(FALSE, 100, <<255, 255, 255>>, 0)

\* coordinator.data before the first refresh (None)
NoState == [none |-> TRUE]

\* dict.get(key, default)
Get(d, k, dflt) == IF k \in DOMAIN d THEN d[k] ELSE dflt

\* {} : the dict with no key
EmptyDict == <<>>

(* ---------------------------- datagrams ------------------------------- *)
\* Bytes that json.loads rejects.
BadJson == [json |-> FALSE]
\* Bytes that decode to the JSON object v.
Json(v) == [json |-> TRUE, val |-> v]

\* data payloads a device reports in a devStatus reply (a full one and one
\* of an older firmware that reports only the power state)
PayloadFull ==
  [onOff |-> 1, brightness |-> 50, color |-> [r |-> 255, g |-> 0, b |-> 0],
   colorTemInKelvin |-> 0]
PayloadPartial == [onOff |-> 1]
Payloads == {PayloadFull, PayloadPartial}

StatusReply(p) == Json([msg |-> [cmd |-> "devStatus", data |-> p]])
\* unexpected envelope shapes
NoMsgReply == Json([other |-> 1])
WrongCmdReply == Json([msg |-> [cmd |-> "scan", data |-> PayloadFull]])
NoDataReply == Json([msg |-> [cmd |-> "devStatus"]])

Bodies == {BadJson, NoMsgReply, WrongCmdReply, NoDataReply}
            \cup {StatusReply(p) : p \in Payloads}

\* Datagrams that can arrive on the host's listen port: anything from a
\* configured device, and traffic of a foreign sender.
Datagrams == {[src |-> Host(c), body |-> b] : c \in Clients, b \in Bodies}
               \cup {[src |-> ForeignAddr, body |-> BadJson]}

\* data payloads with every subset of the fields present: the power state
\* absent, off or on; the brightness absent or reported (inside the range,
\* and the 0 and 150 a device may report); the colour absent, empty, with
\* one channel or with all three; the kelvin absent, 0 or set
StatusPayloads ==
  { a @@ b @@ c @@ k :
      a \in {EmptyDict, [onOff |-> 0], [onOff |-> 1]},
      b \in {EmptyDict, [brightness |-> 40], [brightness |-> 0],
             [brightness |-> 150]},
      c \in {EmptyDict, [color |-> EmptyDict], [color |-> [g |-> 10]],
             [color |-> [r |-> 1, g |-> 2, b |-> 3]],
             [color |-> [r |-> 0, g |-> 0, b |-> 0]]},
      k \in {EmptyDict, [colorTemInKelvin |-> 0],
             [colorTemInKelvin |-> 4000]} }

\* devStatus replies of device A carrying them
StatusDatagrams ==
  {[src |-> Host("A"), body |-> StatusReply(p)] : p \in StatusPayloads}

(* ------------------------------ state --------------------------------- *)
VARIABLES
  pc,          \* task -> where the task is suspended
  lock,        \* client -> task holding GoveeLanApi._lock, or NoTask
  sock,        \* task -> "none" | "open" | "bound": the socket of its exchange
  attempt,     \* task -> loop variable of get_device_state (0-based)
  tried,       \* task -> timeouts of the attempts started by the current /
               \*         last get_device_state call, in order
  nfailed,     \* task -> attempts of that call that ended as failed
  gsResult,    \* task -> how that call ended: "pending" | "state" | "none" | "raise"
  stolen,      \* task -> while this attempt waited, a valid reply of its own
               \*         device reached the listen port on another socket
  supports,    \* client -> coordinator._supports_status_query
  available,   \* client -> coordinator._available
  local,       \* client -> coordinator._local_state
  dataSet,     \* client -> coordinator.data is not None
  published,   \* client -> state last written by the entity (listeners notified)
  op,          \* task -> the operation a user task runs
  stage,       \* task -> position inside async_turn_on / async_turn_off
  cmd,         \* task -> message of the command call in progress
  cmdRet,      \* task -> "none" | "true" | "raised": how its last command call ended
  cmdRecv,     \* task -> its last command call performed a receive step
  sent,        \* client -> last command message put on the wire for the device
  updates,     \* client -> arguments of the update_local_state calls so far
  lastNet,     \* client -> state last adopted from a status reply (the
               \*           initial state before any)
  adoptedAt,   \* client -> number of update_local_state calls made before
               \*           that adoption
  nOps,        \* task -> operations started so far
  lastReply,   \* client -> the datagram whose data the state last returned
               \*           by get_device_state was parsed from
  foreign,     \* task -> the datagram its current / last attempt received
               \*         came from an address other than the device's
  dpc,         \* where the discover_devices call is: "idle" | "send" | "recv"
               \*   | "returned" | "raised"
  dsock,       \* its socket: "none" | "bound"
  devices,     \* its list `devices`
  seen_devices,\* its set `seen_devices`
  heard        \* the datagrams it has received, in order

clientVars == <<pc, lock, sock, attempt, tried, nfailed, gsResult, stolen,
                supports, available, local, dataSet, published, op, stage,
                cmd, cmdRet, cmdRecv, sent, updates, lastNet, adoptedAt, nOps,
                lastReply, foreign>>
discVars == <<dpc, dsock, devices, seen_devices, heard>>

vars == <<clientVars, discVars>>

taskVars == <<pc, sock, attempt, tried, nfailed, gsResult, stolen>>
coordVars == <<supports, available, local, dataSet, published, lastNet,
               adoptedAt>>
userVars == <<op, stage, cmd, cmdRet, cmdRecv, sent, nOps>>

NoOp == [kind |-> "none"]
NoReply == [src |-> "none"]
NoCmd == [cmd |-> "none"]

Init ==
  /\ pc = [t \in Tasks |-> "idle"]
  /\ lock = [c \in Clients |-> NoTask]
  /\ sock = [t \in Tasks |-> "none"]
  /\ attempt = [t \in Tasks |-> 0]
  /\ tried = [t \in Tasks |-> <<>>]
  /\ nfailed = [t \in Tasks |-> 0]
  /\ gsResult = [t \in Tasks |-> "pending"]
  /\ stolen = [t \in Tasks |-> FALSE]
  /\ supports = [c \in Clients |-> TRUE]
  /\ available = [c \in Clients |-> TRUE]
  /\ local = [c \in Clients |-> InitialLocalState]
  /\ dataSet = [c \in Clients |-> FALSE]
  /\ published = [c \in Clients |-> NoState]
  /\ op = [t \in Tasks |-> NoOp]
  /\ stage = [t \in Tasks |-> "s0"]
  /\ cmd = [t \in Tasks |-> NoCmd]
  /\ cmdRet = [t \in Tasks |-> "none"]
  /\ cmdRecv = [t \in Tasks |-> FALSE]
  /\ sent = [c \in Clients |-> NoCmd]
  /\ updates = [c \in Clients |-> <<>>]
  /\ lastNet = [c \in Clients |-> InitialLocalState]
  /\ adoptedAt = [c \in Clients |-> 0]
  /\ nOps = [t \in Tasks |-> 0]
  /\ lastReply = [c \in Clients |-> NoReply]
  /\ foreign = [t \in Tasks |-> FALSE]
  /\ dpc = "idle"
  /\ dsock = "none"
  /\ devices = <<>>
  /\ seen_devices = {}
  /\ heard = <<>>

\* coordinator.data: every value _async_update_data returns, and the value
\* async_refresh_immediate passes on, is the object _local_state refers to,
\* so data and _local_state are one object once data is set.
Data(c) == IF dataSet[c] THEN local[c] ELSE NoState

(* ----------------------- coordinator.py ------------------------------ *)
\* (mutant of ShouldQuery: the latch is not consulted)
ShouldQueryAlways(c) == TRUE

\* _async_update_data line 93: query the device unless the latch is set
ShouldQuery(c) == supports[c]

\* (mutant of SupportsAfter: the except branch sets the latch as well)
SupportsAfterAnyFailure(old, res) ==
  IF res.kind \in {"none", "raise"} THEN FALSE ELSE old

\* _supports_status_query after a get_device_state outcome (line 107 is the
\* only assignment after __init__)
SupportsAfter(old, res) == IF res.kind = "none" THEN FALSE ELSE old

\* (mutant of AvailableAfter: the except branch marks the device unavailable)
AvailableUnlessRaise(res) == res.kind # "raise"

\* _available after a poll outcome (lines 94, 108, 111, 119)
AvailableAfter(res) == TRUE

\* (mutant of LocalAfter: a poll without a state resets the tracked state)
LocalAfterReset(old, res) ==
  IF res.kind = "state" THEN res.state ELSE InitialLocalState

\* (mutant of LocalAfter: the polled state is not stored)
LocalAfterKeep(old, res) == old

\* _local_state after a get_device_state outcome (line 113)
LocalAfter(old, res) == IF res.kind = "state" THEN res.state ELSE old

\* (mutant of Returned: a poll that got no state returns None)
ReturnedNoneOnFailure(newLocal, res) ==
  IF res.kind = "state" THEN newLocal ELSE NoState

\* The value _async_update_data returns (lines 95, 109, 114, 120), given the
\* _local_state it leaves behind.
Returned(newLocal, res) == newLocal

\* _async_update_data from the return of get_device_state on (lines 100-120),
\* then DataUpdateCoordinator stores the returned value in data and notifies
\* the listeners (light.py _handle_coordinator_update writes the state).
\* res: [kind |-> "state", state |-> s] | [kind |-> "none"] | [kind |-> "raise"]
PollReturn(c, res) ==
  /\ supports' = [supports EXCEPT ![c] = SupportsAfter(@, res)]
  /\ available' = [available EXCEPT ![c] = AvailableAfter(res)]
  /\ local' = [local EXCEPT ![c] = LocalAfter(@, res)]
  /\ dataSet' = [dataSet EXCEPT ![c] = TRUE]
  /\ published' = [published EXCEPT ![c] = Returned(local'[c], res)]
  /\ lastNet' = [lastNet EXCEPT ![c] =
                   IF res.kind = "state" THEN res.state ELSE @]
  /\ adoptedAt' = [adoptedAt EXCEPT ![c] =
                     IF res.kind = "state" THEN Len(updates[c]) ELSE @]

\* _async_update_data lines 93-95: the latch is set, serve the local state
PollLatched(c) ==
  /\ available' = [available EXCEPT ![c] = TRUE]
  /\ dataSet' = [dataSet EXCEPT ![c] = TRUE]
  /\ published' = [published EXCEPT ![c] = local[c]]
  /\ UNCHANGED <<supports, local, lastNet, adoptedAt>>

\* A refresh starts in task t: _async_update_data up to its first suspension.
BeginRefresh(t) ==
  LET c == ClientOf(t) IN
  IF ShouldQuery(c)
    THEN /\ pc' = [pc EXCEPT ![t] = "gs_lock"]
         /\ attempt' = [attempt EXCEPT ![t] = 0]
         /\ tried' = [tried EXCEPT ![t] = <<>>]
         /\ nfailed' = [nfailed EXCEPT ![t] = 0]
         /\ gsResult' = [gsResult EXCEPT ![t] = "pending"]
         /\ UNCHANGED coordVars
    ELSE /\ pc' = [pc EXCEPT ![t] = "idle"]
         /\ PollLatched(c)
         /\ UNCHANGED <<attempt, tried, nfailed, gsResult>>

\* (mutant of ApplyLocalUpdate: colour and kelvin are stored side by side)
ApplyLocalUpdateNoReset(s, u) ==
  [on |-> Get(u, "on", s.on),
   brightness |-> Get(u, "brightness", s.brightness),
   color |-> Get(u, "color", s.color),
   color_temp_kelvin |-> Get(u, "color_temp_kelvin", s.color_temp_kelvin)]

\* update_local_state(on, brightness, color, color_temp_kelvin); an argument
\* left out is the record field left out.
ApplyLocalUpdate(s, u) ==
  LET s1 == IF "on" \in DOMAIN u THEN [s EXCEPT !.on = u.on] ELSE s
      s2 == IF "brightness" \in DOMAIN u
              THEN [s1 EXCEPT !.brightness = u.brightness] ELSE s1
      s3 == IF "color" \in DOMAIN u
              THEN [s2 EXCEPT !.color = u.color, !.color_temp_kelvin = 0]
              ELSE s2
      s4 == IF "color_temp_kelvin" \in DOMAIN u
              THEN [s3 EXCEPT !.color_temp_kelvin = u.color_temp_kelvin,
                              !.color = <<0, 0, 0>>]
              ELSE s3
  IN s4

(* ----------------------- api.py: status query ------------------------- *)
\* get_device_state lines 130-132: the envelope check on a decoded response
ValidStatus(v) ==
  /\ "msg" \in DOMAIN v
  /\ Get(v.msg, "cmd", "") = "devStatus"
  /\ "data" \in DOMAIN v.msg

\* (mutant of ParseState: a missing field is read as zero / off / black)
ParseStateZero(data) ==
  DeviceState(
    "onOff" \in DOMAIN data /\ data.onOff = 1,
    Get(data, "brightness", 0),
    << Get(Get(data, "color", EmptyDict), "r", 0),
       Get(Get(data, "color", EmptyDict), "g", 0),
       Get(Get(data, "color", EmptyDict), "b", 0) >>,
    Get(data, "colorTemInKelvin", 0))

\* get_device_state lines 133-143
ParseState(data) ==
  DeviceState(
    "onOff" \in DOMAIN data /\ data.onOff = 1,
    Get(data, "brightness", 100),
    << Get(Get(data, "color", EmptyDict), "r", 255),
       Get(Get(data, "color", EmptyDict), "g", 255),
       Get(Get(data, "color", EmptyDict), "b", 255) >>,
    Get(data, "colorTemInKelvin", 0))

\* (mutant of AttemptTimeout: no backoff)
AttemptTimeoutFlat(a) == TIMEOUT_STATUS

\* get_device_state line 127: the timeout handed to attempt number `a` (0-based)
AttemptTimeout(a) == TIMEOUT_STATUS * (a + 1)

\* (mutant of RecvOutcome: the sender's address is not compared)
RecvOutcomeAnySender(host, d) ==
  IF d.body.json THEN [kind |-> "dict", val |-> d.body.val]
                 ELSE [kind |-> "raise"]

\* _send_status_query lines 190-201: what the receive yields for datagram d
RecvOutcome(host, d) ==
  IF d.src = host
    THEN IF d.body.json THEN [kind |-> "dict", val |-> d.body.val]
                        ELSE [kind |-> "raise"]
    ELSE [kind |-> "none"]

\* get_device_state returns (or raises) into _async_update_data
GsReturn(t, res) ==
  /\ pc' = [pc EXCEPT ![t] = "idle"]
  /\ gsResult' = [gsResult EXCEPT ![t] = res.kind]
  /\ PollReturn(ClientOf(t), res)

\* get_device_state line 123: is there another attempt after 0-based attempt a
HasNextAttempt(a) == a + 1 < MAX_RETRIES

\* (mutant of SockAfterQuery: the socket is closed on the return paths only)
SockAfterQueryNoFinally(r) == IF r.kind = "raise" THEN "bound" ELSE "none"

\* _send_status_query lines 181, 208-209: the socket of the attempt after
\* the attempt ended with outcome r (closed)
SockAfterQuery(r) == "none"

\* (mutant of HolderAfterAttempt: an exception leaves the lock held)
HolderIfRaised(t, r) == IF r.kind = "raise" THEN t ELSE NoTask

\* get_device_state line 124 (async with): who holds the lock after the
\* attempt of t ended with outcome r
HolderAfterAttempt(t, r) == NoTask

\* One attempt ends with outcome r of _send_status_query
\* ([kind |-> "none"] | [kind |-> "dict", val |-> v] | [kind |-> "raise"]):
\* the socket is closed (finally), the lock released (async with), and
\* get_device_state lines 130-152 run.
AttemptEnd(t, r) ==
  LET c == ClientOf(t) IN
  /\ sock' = [sock EXCEPT ![t] = SockAfterQuery(r)]
  /\ lock' = [lock EXCEPT ![c] = HolderAfterAttempt(t, r)]
  /\ IF r.kind = "raise"
       THEN /\ GsReturn(t, [kind |-> "raise"])
            /\ UNCHANGED <<attempt, nfailed>>
       ELSE IF r.kind = "dict" /\ ValidStatus(r.val)
         THEN /\ GsReturn(t, [kind |-> "state",
                              state |-> ParseState(r.val.msg.data)])
              /\ UNCHANGED <<attempt, nfailed>>
         ELSE /\ nfailed' = [nfailed EXCEPT ![t] = @ + 1]
              /\ IF HasNextAttempt(attempt[t])
                   THEN /\ attempt' = [attempt EXCEPT ![t] = @ + 1]
                        /\ pc' = [pc EXCEPT ![t] = "gs_lock"]
                        /\ UNCHANGED <<gsResult, coordVars>>
                   ELSE /\ GsReturn(t, [kind |-> "none"])
                        /\ UNCHANGED attempt

\* (mutant of LockFree: the lock never makes a caller wait)
LockFreeAlways(c) == TRUE

\* asyncio.Lock: can the lock of client c be taken now
LockFree(c) == lock[c] = NoTask

\* get_device_state line 124 and _send_status_query lines 171-174: the lock
\* is taken and the socket created
GsAcquire(t) ==
  /\ pc[t] = "gs_lock"
  /\ LockFree(ClientOf(t))
  /\ lock' = [lock EXCEPT ![ClientOf(t)] = t]
  /\ sock' = [sock EXCEPT ![t] = "open"]
  /\ tried' = [tried EXCEPT ![t] = Append(@, AttemptTimeout(attempt[t]))]
  /\ stolen' = [stolen EXCEPT ![t] = FALSE]
  /\ pc' = [pc EXCEPT ![t] = "sq_bind"]
  /\ foreign' = [foreign EXCEPT ![t] = FALSE]
  /\ UNCHANGED <<attempt, nfailed, gsResult, coordVars, userVars, updates>>
  /\ UNCHANGED <<discVars, lastReply>>

\* (mutant of BindFailed: the query is sent from the unbound socket)
BindFailedSendsAnyway(t) ==
  /\ pc' = [pc EXCEPT ![t] = "sq_send"]
  /\ UNCHANGED <<lock, sock, attempt, nfailed, gsResult, coordVars>>

\* _send_status_query lines 179-182: the bind raised OSError; the socket is
\* closed and None returned
BindFailed(t) == AttemptEnd(t, [kind |-> "none"])

\* _send_status_query lines 176-182: bind the listen port (ok, or OSError)
SqBind(t) ==
  /\ pc[t] = "sq_bind"
  /\ \E ok \in BOOLEAN :
       IF ok
         THEN /\ sock' = [sock EXCEPT ![t] = "bound"]
              /\ pc' = [pc EXCEPT ![t] = "sq_send"]
              /\ UNCHANGED <<lock, attempt, nfailed, gsResult, coordVars>>
         ELSE BindFailed(t)
  /\ UNCHANGED <<tried, stolen, userVars, updates>>
  /\ UNCHANGED <<discVars, lastReply, foreign>>

\* _send_status_query lines 185-187, 205-207: send the query (ok, or OSError)
SqSend(t) ==
  /\ pc[t] = "sq_send"
  /\ \E ok \in BOOLEAN :
       IF ok
         THEN /\ pc' = [pc EXCEPT ![t] = "sq_recv"]
              /\ UNCHANGED <<lock, sock, attempt, nfailed, gsResult, coordVars>>
         ELSE AttemptEnd(t, [kind |-> "none"])
  /\ UNCHANGED <<tried, stolen, userVars, updates>>
  /\ UNCHANGED <<discVars, lastReply, foreign>>

\* A valid devStatus reply
IsStatusReply(b) == b.json /\ ValidStatus(b.val)

\* _send_status_query lines 190-201: datagram d reaches the listen port, is
\* delivered to the socket of t, and sock_recvfrom returns it. Every other
\* socket bound to the port misses it.
SqRecv(t, d) ==
  /\ pc[t] = "sq_recv"
  /\ AttemptEnd(t, RecvOutcome(Host(ClientOf(t)), d))
  /\ stolen' = [s \in Tasks |->
                  IF s = t THEN FALSE
                  ELSE stolen[s] \/ ( /\ pc[s] = "sq_recv"
                                      /\ d.src = Host(ClientOf(s))
                                      /\ IsStatusReply(d.body) )]
  /\ lastReply' = [lastReply EXCEPT ![ClientOf(t)] =
                     LET r == RecvOutcome(Host(ClientOf(t)), d) IN
                     IF r.kind = "dict" /\ ValidStatus(r.val) THEN d ELSE @]
  /\ foreign' = [foreign EXCEPT ![t] = d.src # Host(ClientOf(t))]
  /\ UNCHANGED <<tried, userVars, updates>>
  /\ UNCHANGED discVars

\* _send_status_query lines 202-204: asyncio.TimeoutError after the timeout
SqTimeout(t) ==
  /\ pc[t] = "sq_recv"
  /\ AttemptEnd(t, [kind |-> "none"])
  /\ stolen' = [stolen EXCEPT ![t] = FALSE]
  /\ UNCHANGED <<tried, userVars, updates>>
  /\ UNCHANGED <<discVars, lastReply, foreign>>

\* The update_interval timer fires (and the first refresh of the setup).
PeriodicPoll(t) ==
  /\ t \in PollTasks
  /\ pc[t] = "idle"
  /\ BeginRefresh(t)
  /\ UNCHANGED <<lock, sock, stolen, userVars, updates>>
  /\ UNCHANGED <<discVars, lastReply, foreign>>

(* ----------------------- api.py: commands ----------------------------- *)
\* max(lo, min(hi, x))
Clamp(lo, hi, x) == IF x < lo THEN lo ELSE IF x > hi THEN hi ELSE x

\* turn_on / turn_off: {"cmd": "turn", "data": {"value": v}}
TurnMsg(v) == [cmd |-> "turn", value |-> v]

\* (mutant of BrightnessMsg: the value is sent as given)
BrightnessMsgRaw(b) == [cmd |-> "brightness", value |-> b]

\* set_brightness lines 246-247
BrightnessMsg(b) == [cmd |-> "brightness", value |-> Clamp(1, 100, b)]

\* (mutant of ColorMsg: the channels are clamped together, the largest
\* channel deciding for all three)
ColorMsgJoint(rgb) ==
  [cmd |-> "colorwc",
   color |-> IF \E i \in 1..3 : rgb[i] > 255 THEN <<255, 255, 255>>
             ELSE IF \E i \in 1..3 : rgb[i] < 0 THEN <<0, 0, 0>>
             ELSE rgb,
   colorTemInKelvin |-> 0]

\* set_color lines 265-273
ColorMsg(rgb) ==
  [cmd |-> "colorwc",
   color |-> <<Clamp(0, 255, rgb[1]), Clamp(0, 255, rgb[2]),
               Clamp(0, 255, rgb[3])>>,
   colorTemInKelvin |-> 0]

\* (mutant of ColorTempMsg: the kelvin is sent as given)
ColorTempMsgRaw(k) ==
  [cmd |-> "colorwc", color |-> <<0, 0, 0>>, colorTemInKelvin |-> k]

\* set_color_temp lines 289-295
ColorTempMsg(k) ==
  [cmd |-> "colorwc", color |-> <<0, 0, 0>>,
   colorTemInKelvin |-> Clamp(2000, 9000, k)]

\* (mutant of ExpectResponse: the argument is left at its default, line 68)
ExpectResponseDefault == TRUE

\* The expect_response argument every command method passes.
ExpectResponse == FALSE

\* (mutant of CommandOutcome: the OSError of the send is not caught)
CommandOutcomeStrict(ok) == IF ok THEN "true" ELSE "raised"

\* What a command method does after _send_udp_command sent the datagram
\* (ok) or sock_sendto raised OSError (not ok: caught at line 106): the
\* method returns True (lines 222, 235, 252, 278, 300).
CommandOutcome(ok) == "true"

(* ----------------------------- light.py ------------------------------- *)
\* round((ha_brightness / 255) * MAX_BRIGHTNESS_GOVEE): for an integer
\* ha_brightness the quotient is never halfway between two integers
RoundScaled(ha) ==
  (2 * ha * MAX_BRIGHTNESS_GOVEE + 255) \div (2 * 255)

\* async_turn_on lines 142-148
GoveeBrightness(ha) ==
  Clamp(MIN_BRIGHTNESS_GOVEE, MAX_BRIGHTNESS_GOVEE, RoundScaled(ha))

\* is_on (lines 91-95) is falsy
NotIsOn(c) == ~dataSet[c] \/ ~local[c].on

\* async_turn_on line 162-165: none of the three attributes is in kwargs
NoAttrs(kw) ==
  DOMAIN kw \cap {"brightness", "rgb_color", "color_temp_kelvin"} = {}

\* The handlers of the entity between two awaits: from stage stg of
\* operation o, the next client call (or NoCmd: the refresh is next) and the
\* stage reached after it.
\*   s0: line 139   s1: line 152   s2: line 162   s3: line 171 / 176
StepS3 == [call |-> NoCmd, next |-> "s3"]
StepS2(o, c) ==
  IF NoAttrs(o.kwargs) \/ NotIsOn(c)
    THEN [call |-> TurnMsg(1), next |-> "s3"]
    ELSE StepS3
StepS1(o, c) ==
  IF "rgb_color" \in DOMAIN o.kwargs
    THEN [call |-> ColorMsg(o.kwargs.rgb_color), next |-> "s2"]
    ELSE IF "color_temp_kelvin" \in DOMAIN o.kwargs
      THEN [call |-> ColorTempMsg(o.kwargs.color_temp_kelvin), next |-> "s2"]
      ELSE StepS2(o, c)
StepS0(o, c) ==
  IF "brightness" \in DOMAIN o.kwargs
    THEN [call |-> BrightnessMsg(GoveeBrightness(o.kwargs.brightness)),
          next |-> "s1"]
    ELSE StepS1(o, c)
StepFrom(stg, o, c) ==
  IF o.kind = "turn_off"
    THEN IF stg = "s0" THEN [call |-> TurnMsg(0), next |-> "s3"] ELSE StepS3
    ELSE CASE stg = "s0" -> StepS0(o, c)
           [] stg = "s1" -> StepS1(o, c)
           [] stg = "s2" -> StepS2(o, c)
           [] OTHER -> StepS3

\* The handler of operation o runs on in task t from stage stg up to its
\* next suspension: the next command call waits for the lock, or the final
\* coordinator.async_request_refresh() starts a refresh.
Continue(t, o, stg) ==
  LET c == ClientOf(t)
      step == StepFrom(stg, o, c)
  IN IF step.call # NoCmd
       THEN /\ pc' = [pc EXCEPT ![t] = "cmd_lock"]
            /\ cmd' = [cmd EXCEPT ![t] = step.call]
            /\ stage' = [stage EXCEPT ![t] = step.next]
            /\ UNCHANGED <<attempt, tried, nfailed, gsResult, coordVars>>
       ELSE /\ BeginRefresh(t)
            /\ cmd' = [cmd EXCEPT ![t] = NoCmd]
            /\ stage' = [stage EXCEPT ![t] = "s0"]

\* A user task may start an operation: the entity exists (the first refresh
\* of the setup is done) and the task is not inside another operation.
CanStart(t) ==
  /\ t \in UserTasks
  /\ pc[t] = "idle"
  /\ dataSet[ClientOf(t)]
  /\ nOps[t] < MaxUserOps

\* kwargs of the light.turn_on service calls made (brightness is 0..255)
LightKwargs ==
  { <<>>,
    [brightness |-> 128],
    [rgb_color |-> <<255, 0, 0>>],
    [brightness |-> 255, color_temp_kelvin |-> 2700] }

\* GoveeLanLight.async_turn_on(**kw) up to its first suspension
AsyncTurnOn(t, kw) ==
  /\ CanStart(t)
  /\ op' = [op EXCEPT ![t] = [kind |-> "turn_on", kwargs |-> kw]]
  /\ nOps' = [nOps EXCEPT ![t] = @ + 1]
  /\ cmdRet' = [cmdRet EXCEPT ![t] = "none"]
  /\ cmdRecv' = [cmdRecv EXCEPT ![t] = FALSE]
  /\ Continue(t, op'[t], "s0")
  /\ UNCHANGED <<lock, sock, stolen, sent, updates>>
  /\ UNCHANGED <<discVars, lastReply, foreign>>

\* GoveeLanLight.async_turn_off() up to its first suspension
AsyncTurnOff(t) ==
  /\ CanStart(t)
  /\ op' = [op EXCEPT ![t] = [kind |-> "turn_off", kwargs |-> <<>>]]
  /\ nOps' = [nOps EXCEPT ![t] = @ + 1]
  /\ cmdRet' = [cmdRet EXCEPT ![t] = "none"]
  /\ cmdRecv' = [cmdRecv EXCEPT ![t] = FALSE]
  /\ Continue(t, op'[t], "s0")
  /\ UNCHANGED <<lock, sock, stolen, sent, updates>>
  /\ UNCHANGED <<discVars, lastReply, foreign>>

\* Operations that are handlers of the entity; the others are calls of a
\* client method by itself.
HandlerKinds == {"turn_on", "turn_off"}

\* Arguments of set_brightness: below, at and above the ends of the range
BrightnessInputs == {0 - 7, 0, 1, 2, 50, 99, 100, 101, 500}

\* api.set_brightness(b) up to the wait for the lock (lines 246-248)
SetBrightness(t, b) ==
  /\ t \in UserTasks
  /\ pc[t] = "idle"
  /\ nOps[t] < MaxClientCalls
  /\ op' = [op EXCEPT ![t] = [kind |-> "set_brightness",
                               kwargs |-> [brightness |-> b]]]
  /\ nOps' = [nOps EXCEPT ![t] = @ + 1]
  /\ cmd' = [cmd EXCEPT ![t] = BrightnessMsg(b)]
  /\ cmdRet' = [cmdRet EXCEPT ![t] = "none"]
  /\ cmdRecv' = [cmdRecv EXCEPT ![t] = FALSE]
  /\ pc' = [pc EXCEPT ![t] = "cmd_lock"]
  /\ UNCHANGED <<lock, sock, attempt, tried, nfailed, gsResult, stolen,
                 coordVars, stage, sent, updates>>
  /\ UNCHANGED <<discVars, lastReply, foreign>>

\* Arguments of set_color: channels below, inside and above the range, in
\* every position
ColorInputs ==
  { <<0 - 1, 128, 256>>, <<300, 0 - 20, 255>>, <<0, 255, 1000>>,
    <<12, 34, 56>>, <<256, 256, 256>>, <<0 - 5, 0, 254>> }

\* api.set_color(r, g, b) up to the wait for the lock (lines 265-274)
SetColor(t, rgb) ==
  /\ t \in UserTasks
  /\ pc[t] = "idle"
  /\ nOps[t] < MaxClientCalls
  /\ op' = [op EXCEPT ![t] = [kind |-> "set_color",
                               kwargs |-> [rgb_color |-> rgb]]]
  /\ nOps' = [nOps EXCEPT ![t] = @ + 1]
  /\ cmd' = [cmd EXCEPT ![t] = ColorMsg(rgb)]
  /\ cmdRet' = [cmdRet EXCEPT ![t] = "none"]
  /\ cmdRecv' = [cmdRecv EXCEPT ![t] = FALSE]
  /\ pc' = [pc EXCEPT ![t] = "cmd_lock"]
  /\ UNCHANGED <<lock, sock, attempt, tried, nfailed, gsResult, stolen,
                 coordVars, stage, sent, updates>>
  /\ UNCHANGED <<discVars, lastReply, foreign>>

\* Arguments of set_color_temp: below, at and above the ends of the range
KelvinInputs == {0 - 100, 0, 1999, 2000, 2700, 9000, 9001, 20000}

\* api.set_color_temp(k) up to the wait for the lock (lines 289-296)
SetColorTemp(t, k) ==
  /\ t \in UserTasks
  /\ pc[t] = "idle"
  /\ nOps[t] < MaxClientCalls
  /\ op' = [op EXCEPT ![t] = [kind |-> "set_color_temp",
                               kwargs |-> [color_temp_kelvin |-> k]]]
  /\ nOps' = [nOps EXCEPT ![t] = @ + 1]
  /\ cmd' = [cmd EXCEPT ![t] = ColorTempMsg(k)]
  /\ cmdRet' = [cmdRet EXCEPT ![t] = "none"]
  /\ cmdRecv' = [cmdRecv EXCEPT ![t] = FALSE]
  /\ pc' = [pc EXCEPT ![t] = "cmd_lock"]
  /\ UNCHANGED <<lock, sock, attempt, tried, nfailed, gsResult, stolen,
                 coordVars, stage, sent, updates>>
  /\ UNCHANGED <<discVars, lastReply, foreign>>

\* A command method takes the lock (async with self._lock) and
\* _send_udp_command creates its socket (lines 81-84).
CmdAcquire(t) ==
  /\ pc[t] = "cmd_lock"
  /\ LockFree(ClientOf(t))
  /\ lock' = [lock EXCEPT ![ClientOf(t)] = t]
  /\ sock' = [sock EXCEPT ![t] = "open"]
  /\ pc' = [pc EXCEPT ![t] = "cmd_send"]
  /\ UNCHANGED <<attempt, tried, nfailed, gsResult, stolen, coordVars,
                 userVars, updates>>
  /\ UNCHANGED <<discVars, lastReply, foreign>>

\* _send_udp_command lines 86-110 (the datagram is sent, or sock_sendto
\* raises OSError), the socket is closed, the lock released, the command
\* method returns and the handler runs on.
CmdSend(t) ==
  LET c == ClientOf(t) IN
  /\ pc[t] = "cmd_send"
  /\ \E ok \in BOOLEAN :
       /\ sent' = [sent EXCEPT ![c] = IF ok THEN cmd[t] ELSE @]
       /\ cmdRecv' = [cmdRecv EXCEPT ![t] = ok /\ ExpectResponse]
       /\ cmdRet' = [cmdRet EXCEPT ![t] = CommandOutcome(ok)]
       /\ IF CommandOutcome(ok) = "true" /\ op[t].kind \in HandlerKinds
            THEN Continue(t, op[t], stage[t])
            ELSE /\ pc' = [pc EXCEPT ![t] = "idle"]
                 /\ UNCHANGED <<attempt, tried, nfailed, gsResult, coordVars,
                                cmd, stage>>
  /\ sock' = [sock EXCEPT ![t] = "none"]
  /\ lock' = [lock EXCEPT ![c] = NoTask]
  /\ UNCHANGED <<stolen, op, nOps, updates>>
  /\ UNCHANGED <<discVars, lastReply, foreign>>

\* (mutant of NotifyOnly: listeners are notified without a poll in any case)
NotifyOnlyAlways(c) == TRUE

\* async_refresh_immediate line 125: just notify the listeners
NotifyOnly(c) == ~supports[c]

\* coordinator.async_refresh_immediate() (lines 122-128)
AsyncRefreshImmediate(t) ==
  LET c == ClientOf(t) IN
  /\ CanStart(t)
  /\ op' = [op EXCEPT ![t] = [kind |-> "refresh_immediate", kwargs |-> <<>>]]
  /\ nOps' = [nOps EXCEPT ![t] = @ + 1]
  /\ IF NotifyOnly(c)
       THEN /\ published' = [published EXCEPT ![c] = local[c]]
            /\ UNCHANGED <<pc, attempt, tried, nfailed, gsResult, supports,
                           available, local, dataSet, lastNet, adoptedAt>>
       ELSE BeginRefresh(t)
  /\ UNCHANGED <<lock, sock, stolen, stage, cmd, cmdRet, cmdRecv, sent,
                 updates>>
  /\ UNCHANGED <<discVars, lastReply, foreign>>

\* Arguments of the update_local_state calls made
LocalUpdates ==
  { [on |-> TRUE],
    [brightness |-> 30, color |-> <<0, 0, 255>>],
    [color_temp_kelvin |-> 4000] }

\* coordinator.update_local_state(**u)
UpdateLocalState(c, u) ==
  /\ dataSet[c]
  /\ Len(updates[c]) < MaxLocalUpdates
  /\ updates' = [updates EXCEPT ![c] = Append(@, u)]
  /\ local' = [local EXCEPT ![c] = ApplyLocalUpdate(@, u)]
  /\ UNCHANGED <<taskVars, lock, supports, available, dataSet, published,
                 lastNet, adoptedAt, userVars>>
  /\ UNCHANGED <<discVars, lastReply, foreign>>

\* Arguments of update_local_state: each field alone, colour and kelvin at
\* their "unset" values, and calls that pass a colour and a kelvin together
LocalCallArgs ==
  { [on |-> TRUE],
    [brightness |-> 30],
    [color |-> <<0, 0, 255>>],
    [color |-> <<0, 0, 0>>],
    [color_temp_kelvin |-> 4000],
    [color_temp_kelvin |-> 0],
    [color |-> <<255, 0, 0>>, color_temp_kelvin |-> 2700],
    [on |-> FALSE, brightness |-> 1, color |-> <<9, 9, 9>>,
     color_temp_kelvin |-> 0] }

\* coordinator.update_local_state(**u) on a coordinator that has not polled
UpdateLocalStateFresh(c, u) ==
  /\ ~dataSet[c]
  /\ Len(updates[c]) < MaxLocalCalls
  /\ updates' = [updates EXCEPT ![c] = Append(@, u)]
  /\ local' = [local EXCEPT ![c] = ApplyLocalUpdate(@, u)]
  /\ UNCHANGED <<taskVars, lock, supports, available, dataSet, published,
                 lastNet, adoptedAt, userVars>>
  /\ UNCHANGED <<discVars, lastReply, foreign>>

(* ----------------------- api.py: discovery ---------------------------- *)
\* GoveeDeviceInfo
GoveeDeviceInfo(ip, device, sku, mac) ==
  [ip |-> ip, device |-> device, sku |-> sku, mac |-> mac]

\* data.get("mac") of a payload without one
None == "None"

\* Bytes that are not UTF-8 text: response_data.decode raises
\* UnicodeDecodeError
BadBytes == [json |-> FALSE, utf8 |-> FALSE]

\* Valid JSON text whose value is not an object (a number)
JsonNumber == [json |-> TRUE, number |-> 5]

\* The `data` of scan replies: device d1 declaring its address, declaring
\* none, declaring an empty one; device d2; a reply with no identifier
ScanD1 == [ip |-> "ipA", device |-> "d1", sku |-> "H6001", mac |-> "m1"]
ScanD1NoIp == [device |-> "d1", sku |-> "H6076"]
ScanD1EmptyIp == [ip |-> "", device |-> "d1", sku |-> "H6001"]
ScanD2 == [ip |-> "ipB", device |-> "d2", sku |-> "H6002"]
ScanNoId == [ip |-> "ipA", sku |-> "H6001"]
ScanPayloads == {ScanD1, ScanD1NoIp, ScanD1EmptyIp, ScanD2, ScanNoId}

ScanReply(p) == Json([msg |-> [cmd |-> "scan", data |-> p]])

\* Datagrams on the listen port that are not scan replies
NoiseBodies ==
  {BadJson, BadBytes, JsonNumber, NoMsgReply, StatusReply(PayloadPartial)}

\* What reaches the discovery socket: scan replies from either device
\* address, noise from an unrelated sender
ScanDatagrams ==
  {[src |-> Host(c), body |-> ScanReply(p)] : c \in Clients, p \in ScanPayloads}
    \cup {[src |-> ForeignAddr, body |-> b] : b \in NoiseBodies}

\* lines 367-372: how the handling of one received body goes on:
\*   "raise": an exception no handler of the loop catches
\*            (UnicodeDecodeError of decode; TypeError of `"msg" in 5`)
\*   "skip":  json.JSONDecodeError (caught, line 398), or not a scan reply
\*   "scan":  a scan reply with data
Classify(b) ==
  IF ~Get(b, "utf8", TRUE) THEN "raise"
  ELSE IF ~b.json THEN "skip"
  ELSE IF "val" \notin DOMAIN b THEN "raise"
  ELSE IF /\ "msg" \in DOMAIN b.val
          /\ Get(b.val.msg, "cmd", "") = "scan"
          /\ "data" \in DOMAIN b.val.msg
         THEN "scan"
         ELSE "skip"

\* (mutant of DeviceIp: the declared field is taken as it is)
DeviceIpDeclared(data, sender_ip) == Get(data, "ip", "")

\* line 377: device_data.get("ip") or sender_ip
DeviceIp(data, sender_ip) ==
  IF Get(data, "ip", "") # "" THEN data.ip ELSE sender_ip

\* line 379
DeviceId(data) == Get(data, "device", "")

\* (mutant of IsNew: the set of seen identifiers is not consulted)
IsNewAlways(id, seen) == id # ""

\* line 381: device_id and device_id not in seen_devices
IsNew(id, seen) == id # "" /\ id \notin seen

\* lines 384-389
InfoOf(d) ==
  LET data == d.body.val.msg.data IN
  GoveeDeviceInfo(DeviceIp(data, d.src), DeviceId(data),
                  Get(data, "sku", ""), Get(data, "mac", None))

\* discover_devices lines 325-349 up to the await of the send: the socket
\* is created and bound (ok, or OSError: closed, the empty list returned)
Discover ==
  /\ dpc = "idle"
  /\ \E ok \in BOOLEAN :
       IF ok THEN dpc' = "send" /\ dsock' = "bound"
             ELSE dpc' = "returned" /\ dsock' = "none"
  /\ UNCHANGED <<devices, seen_devices, heard, clientVars>>

\* lines 343-352: the scan message is sent (ok, or OSError: closed, return)
DiscSend ==
  /\ dpc = "send"
  /\ \E ok \in BOOLEAN :
       IF ok THEN dpc' = "recv" /\ dsock' = dsock
             ELSE dpc' = "returned" /\ dsock' = "none"
  /\ UNCHANGED <<devices, seen_devices, heard, clientVars>>

\* lines 360-399: datagram d is received before the deadline and handled
DiscRecv(d) ==
  /\ dpc = "recv"
  /\ Len(heard) < MaxReplies
  /\ heard' = Append(heard, d)
  /\ LET k == Classify(d.body) IN
       IF k = "raise"
         THEN /\ dpc' = "raised"
              /\ UNCHANGED <<devices, seen_devices>>
         ELSE IF k = "scan" /\ IsNew(DeviceId(d.body.val.msg.data), seen_devices)
           THEN /\ dpc' = "recv"
                /\ seen_devices' =
                     seen_devices \cup {DeviceId(d.body.val.msg.data)}
                /\ devices' = Append(devices, InfoOf(d))
           ELSE /\ dpc' = "recv"
                /\ UNCHANGED <<devices, seen_devices>>
  /\ dsock' = dsock
  /\ UNCHANGED clientVars

\* lines 354-358, 401-408: the deadline passes (the loop condition, or
\* asyncio.TimeoutError) or the receive raises OSError: the loop ends, the
\* socket is closed and the list returned
DiscEnd ==
  /\ dpc = "recv"
  /\ dpc' = "returned"
  /\ dsock' = "none"
  /\ UNCHANGED <<devices, seen_devices, heard, clientVars>>

(* --------------------------- specification ---------------------------- *)
\* One configured device: its periodic refresh, the service calls on its
\* entity and the update_local_state calls on its coordinator.
DeviceATasks == {"pollA", "userA"}

Next ==
  \/ \E t \in DeviceATasks : PeriodicPoll(t)
  \/ \E t \in DeviceATasks : GsAcquire(t)
  \/ \E t \in DeviceATasks : SqBind(t)
  \/ \E t \in DeviceATasks : SqSend(t)
  \/ \E t \in DeviceATasks : \E d \in Datagrams : SqRecv(t, d)
  \/ \E t \in DeviceATasks : SqTimeout(t)
  \/ \E t \in DeviceATasks : \E kw \in LightKwargs : AsyncTurnOn(t, kw)
  \/ \E t \in DeviceATasks : AsyncTurnOff(t)
  \/ \E t \in DeviceATasks : AsyncRefreshImmediate(t)
  \/ \E t \in DeviceATasks : CmdAcquire(t)
  \/ \E t \in DeviceATasks : CmdSend(t)
  \/ \E u \in LocalUpdates : UpdateLocalState("A", u)

Spec == Init /\ [][Next]_vars

\* Two configured devices whose coordinators poll in the same event loop.
NextTwo ==
  \/ \E t \in PollTasks : PeriodicPoll(t)
  \/ \E t \in PollTasks : GsAcquire(t)
  \/ \E t \in PollTasks : SqBind(t)
  \/ \E t \in PollTasks : SqSend(t)
  \/ \E t \in PollTasks : \E d \in Datagrams : SqRecv(t, d)
  \/ \E t \in PollTasks : SqTimeout(t)

SpecTwo == Init /\ [][NextTwo]_vars

\* The event loop runs every task that can run: a synchronous bind and a
\* UDP send complete, asyncio.wait_for ends the receive at its timeout, and
\* asyncio.Lock hands the lock to its waiters in turn.
Fairness ==
  \A t \in DeviceATasks :
    /\ SF_vars(GsAcquire(t))
    /\ WF_vars(SqBind(t))
    /\ WF_vars(SqSend(t))
    /\ WF_vars(SqTimeout(t))
    /\ SF_vars(CmdAcquire(t))
    /\ WF_vars(CmdSend(t))

SpecLive == Init /\ [][Next]_vars /\ Fairness

\* update_local_state calls on the coordinator of a device, from its
\* initial state.
NextLocal == \E u \in LocalCallArgs : UpdateLocalStateFresh("A", u)

SpecLocal == Init /\ [][NextLocal]_vars

\* The polls of one device that answers its status queries, with any
\* payload.
NextParse ==
  \/ PeriodicPoll("pollA")
  \/ GsAcquire("pollA")
  \/ SqBind("pollA")
  \/ SqSend("pollA")
  \/ \E d \in StatusDatagrams : SqRecv("pollA", d)
  \/ SqTimeout("pollA")

SpecParse == Init /\ [][NextParse]_vars

\* The command methods of one client, called with arguments of any size.
NextClient ==
  \/ \E b \in BrightnessInputs : SetBrightness("userA", b)
  \/ \E rgb \in ColorInputs : SetColor("userA", rgb)
  \/ \E k \in KelvinInputs : SetColorTemp("userA", k)
  \/ CmdAcquire("userA")
  \/ CmdSend("userA")

SpecClient == Init /\ [][NextClient]_vars

\* One discover_devices call (the config flow's scan).
NextDiscovery ==
  \/ Discover
  \/ DiscSend
  \/ \E d \in ScanDatagrams : DiscRecv(d)
  \/ DiscEnd

SpecDiscovery == Init /\ [][NextDiscovery]_vars

(* ------------------------------ claims -------------------------------- *)
\* A task at one of these places is inside a get_device_state call.
QueryPcs == {"gs_lock", "sq_bind", "sq_send", "sq_recv"}
\* A task at one of these places has an exchange with the device in flight.
ExchangePcs == {"sq_bind", "sq_send", "sq_recv", "cmd_send"}

RECURSIVE ApplyAll(_, _)
\* The state that update_local_state calls with arguments us, in order,
\* make of state s.
ApplyAll(s, us) ==
  IF us = <<>> THEN s ELSE ApplyAll(ApplyLocalUpdate(s, Head(us)), Tail(us))

\* C1: the capability latch is one-way. A poll whose get_device_state
\* returns NotAvailable sets supportsStatusQuery to false; once it is false
\* it is false in every later state, and no task of that coordinator that
\* is outside a status query enters one: a poll cycle that starts after the
\* latch issues no status query.
C1_LatchOneWay ==
  [][/\ \A c \in Clients :
       ~supports[c] =>
         /\ ~supports'[c]
         /\ \A t \in Tasks :
              (ClientOf(t) = c /\ pc[t] \notin QueryPcs)
                 => pc'[t] \notin QueryPcs
     /\ \A t \in Tasks :
          (gsResult[t] = "pending" /\ gsResult'[t] = "none")
             => ~supports'[ClientOf(t)]]_vars

\* The first poll latched, and a turn-off made afterwards has completed its
\* refresh without the user task ever entering a status query.
C1_Witness ==
  /\ ~supports["A"]
  /\ gsResult["pollA"] = "none"
  /\ op["userA"].kind = "turn_off"
  /\ pc["userA"] = "idle"
  /\ cmdRet["userA"] = "true"
  /\ gsResult["userA"] = "pending"
  /\ published["A"] = local["A"]

\* C2 (as stated): while supportsStatusQuery is false, the state the
\* coordinator serves is the one the initial default state and the
\* update_local_state calls made so far determine; it carries no value of an
\* earlier successful poll.
C2_OnlyLocalUpdates ==
  \A c \in Clients :
    ~supports[c] => Data(c) \in {NoState, ApplyAll(InitialLocalState, updates[c])}

\* C2 (amended): while supportsStatusQuery is false, the state the
\* coordinator serves is the locally tracked state, which is the state last
\* adopted from a successful status query (the initial default if there was
\* none) with the update_local_state calls made since then applied to it.
C2_LocalStateServed ==
  \A c \in Clients :
    (~supports[c] /\ dataSet[c]) =>
      Data(c) = ApplyAll(lastNet[c],
                         SubSeq(updates[c], adoptedAt[c] + 1, Len(updates[c])))

\* Latched after a successful poll and a local update made after it.
C2_Witness ==
  /\ ~supports["A"]
  /\ dataSet["A"]
  /\ lastNet["A"] # InitialLocalState
  /\ Len(updates["A"]) > adoptedAt["A"]
  /\ local["A"] # lastNet["A"]

\* C3: the availability flag of a coordinator is true in every reachable
\* state, whatever the outcomes of its polls were.
C3_AlwaysAvailable == \A c \in Clients : available[c]

\* One poll ended with an exception, another with NotAvailable (the latch
\* is set), and the flag is true.
C3_Witness ==
  /\ gsResult["pollA"] = "raise"
  /\ ~supports["A"]
  /\ available["A"]

\* C4: the retry policy of get_device_state. At most MAX_RETRIES attempts
\* are started; attempt k is handed k times the base timeout; a call that
\* returned a state made its last attempt the first successful one (every
\* earlier attempt failed, none follows); a call that returned NotAvailable
\* made exactly MAX_RETRIES attempts and all of them failed.
C4_RetryPolicy ==
  \A t \in Tasks :
    /\ Len(tried[t]) <= MAX_RETRIES
    /\ \A k \in 1..Len(tried[t]) : tried[t][k] = k * TIMEOUT_STATUS
    /\ nfailed[t] <= Len(tried[t])
    /\ gsResult[t] = "state" =>
         /\ pc[t] \notin QueryPcs
         /\ Len(tried[t]) >= 1
         /\ nfailed[t] = Len(tried[t]) - 1
    /\ gsResult[t] = "none" =>
         /\ pc[t] \notin QueryPcs
         /\ Len(tried[t]) = MAX_RETRIES
         /\ nfailed[t] = MAX_RETRIES

\* A call returned NotAvailable after three attempts, and another call
\* returned a state at its second attempt.
C4_Witness ==
  /\ gsResult["userA"] = "none"
  /\ tried["userA"] = <<2, 4, 6>>
  /\ gsResult["pollA"] = "state"
  /\ tried["pollA"] = <<2, 4>>

\* C5: a reply of the target device that is malformed or has an unexpected
\* envelope is one failed attempt; get_device_state ends by returning a
\* state or NotAvailable and never by raising.
C5_MalformedIsFailedAttempt == \A t \in Tasks : gsResult[t] # "raise"

\* C6: per client, at most one exchange is in flight, and at most one
\* socket of the client is bound to the listen port.
C6_OneExchangeInFlight ==
  \A c \in Clients :
    /\ Cardinality({t \in Tasks : ClientOf(t) = c /\ pc[t] \in ExchangePcs}) <= 1
    /\ Cardinality({t \in Tasks : ClientOf(t) = c /\ sock[t] # "none"}) <= 1

\* A command has its exchange in flight while a status query of the same
\* client waits for the lock.
C6_Witness ==
  /\ pc["userA"] = "cmd_send"
  /\ pc["pollA"] = "gs_lock"
  /\ attempt["pollA"] > 0

\* C7: an attempt during whose wait the client's own device sent a valid
\* devStatus reply to the listen port never ends as a failed attempt,
\* whatever the other client does.
C7_ClientsIndependent ==
  [][\A t \in Tasks : stolen[t] => nfailed'[t] = nfailed[t]]_vars

\* C8 (as stated): a command call never waits behind a status-query attempt
\* of its client that is waiting for its reply.
C8_NeverWaitsForExchange ==
  \A t \in UserTasks :
    ~( /\ pc[t] = "cmd_lock"
       /\ \E s \in Tasks : lock[ClientOf(t)] = s /\ pc[s] = "sq_recv" )

\* C8 (amended): a command call never waits for a reply or for the device:
\* it performs no receive step, and when it waits, it waits for the lock of
\* its client, held by another task of that client with an exchange in
\* flight.
C8_WaitsOnlyForLock ==
  \A t \in UserTasks :
    /\ ~cmdRecv[t]
    /\ pc[t] = "cmd_send" => lock[ClientOf(t)] = t
    /\ (pc[t] = "cmd_lock" /\ ~LockFree(ClientOf(t))) =>
         \E s \in Tasks \ {t} :
           /\ lock[ClientOf(t)] = s
           /\ ClientOf(s) = ClientOf(t)
           /\ pc[s] \in ExchangePcs

\* turn_on was called while a status-query attempt of the client waits for
\* its reply; a command of the operation has completed before.
C8_Witness ==
  /\ pc["userA"] = "cmd_lock"
  /\ cmd["userA"] = TurnMsg(1)
  /\ lock["A"] = "pollA"
  /\ pc["pollA"] = "sq_recv"

C10_LocalStateFollowsCommand ==
  [][\A t \in UserTasks :
       ( /\ op[t].kind \in {"turn_on", "turn_off"}
         /\ pc[t] = "cmd_send"
         /\ pc'[t] = "idle"
         /\ cmdRet'[t] = "true"
         /\ ~supports[ClientOf(t)] )
       => published'[ClientOf(t)].on = (op[t].kind = "turn_on")]_vars

\* C11 (as stated): a poll whose get_device_state raised leaves
\* supportsStatusQuery with the value a NotAvailable result would have left.
C11_ExceptionLatchesLikeNotAvailable ==
  [][\A t \in Tasks :
       (gsResult[t] = "pending" /\ gsResult'[t] = "raise")
         => supports'[ClientOf(t)] =
              SupportsAfter(supports[ClientOf(t)], [kind |-> "none"])]_vars

\* C11 (amended): a poll whose get_device_state raised serves the locally
\* tracked state, unchanged, keeps the availability flag true, and leaves
\* supportsStatusQuery as it was: the latch is not set by an exception.
C11_ExceptionServesLocalState ==
  [][\A t \in Tasks :
       (gsResult[t] = "pending" /\ gsResult'[t] = "raise")
         => /\ local'[ClientOf(t)] = local[ClientOf(t)]
            /\ published'[ClientOf(t)] = local[ClientOf(t)]
            /\ dataSet'[ClientOf(t)]
            /\ available'[ClientOf(t)]
            /\ supports'[ClientOf(t)] = supports[ClientOf(t)]]_vars

\* The first poll ended with an exception: the initial local state is
\* published and the latch is not set.
C11_Witness ==
  /\ gsResult["pollA"] = "raise"
  /\ pc["pollA"] = "idle"
  /\ supports["A"]
  /\ available["A"]
  /\ published["A"] = InitialLocalState
  /\ gsResult["userA"] = "pending"

\* C12: async_refresh_immediate, when the latch is set, publishes the local
\* state at once, with no socket opened, no lock taken and no status query
\* entered; when the latch is not set it starts a poll: the caller enters
\* get_device_state.
C12_ImmediateRefresh ==
  [][\A t \in UserTasks :
       (op'[t].kind = "refresh_immediate" /\ nOps'[t] # nOps[t])
         => IF ~supports[ClientOf(t)]
              THEN /\ published'[ClientOf(t)] = local[ClientOf(t)]
                   /\ pc'[t] = "idle"
                   /\ sock' = sock
                   /\ lock' = lock
                   /\ tried' = tried
                   /\ local' = local
              ELSE /\ pc'[t] = "gs_lock"
                   /\ gsResult'[t] = "pending"
                   /\ tried'[t] = <<>>
                   /\ published' = published]_vars

\* The latch is set, a local update was made after the last publication,
\* and an immediate refresh has published it.
C12_Witness ==
  /\ op["userA"].kind = "refresh_immediate"
  /\ pc["userA"] = "idle"
  /\ ~supports["A"]
  /\ Len(updates["A"]) > 0
  /\ published["A"] = local["A"]
  /\ local["A"] # lastNet["A"]
  /\ tried["userA"] = <<>>

Exclusive(s) == ~(s.color_temp_kelvin > 0 /\ s.color # <<0, 0, 0>>)

\* C14: from the initial state, after any sequence of update_local_state
\* calls the locally tracked state never has a kelvin above 0 together with
\* a non-black colour; after a call that passed a kelvin the colour is
\* (0,0,0) and the kelvin the one passed, after a call that passed a colour
\* and no kelvin the kelvin is 0 and the colour the one passed.
C14_ColorKelvinExclusive ==
  \A c \in Clients :
    /\ Exclusive(local[c])
    /\ updates[c] # <<>> =>
         LET u == updates[c][Len(updates[c])] IN
         /\ "color_temp_kelvin" \in DOMAIN u =>
              /\ local[c].color = <<0, 0, 0>>
              /\ local[c].color_temp_kelvin = u.color_temp_kelvin
         /\ ("color" \in DOMAIN u /\ "color_temp_kelvin" \notin DOMAIN u) =>
              /\ local[c].color_temp_kelvin = 0
              /\ local[c].color = u.color

\* A colour was set, then a call passed a colour and a kelvin together: the
\* kelvin is stored and the colour is black.
C14_Witness ==
  /\ Len(updates["A"]) = 2
  /\ updates["A"][1] = [color |-> <<0, 0, 255>>]
  /\ DOMAIN updates["A"][2] = {"color", "color_temp_kelvin"}
  /\ local["A"].color_temp_kelvin = 2700
  /\ local["A"].color = <<0, 0, 0>>

\* Received datagram number k is a scan reply carrying identifier id.
ScanFor(k, id) ==
  /\ Classify(heard[k].body) = "scan"
  /\ Get(heard[k].body.val.msg.data, "device", "") = id

\* The first received scan reply that carries identifier id.
FirstScanFor(id) ==
  CHOOSE k \in 1..Len(heard) :
    ScanFor(k, id) /\ \A j \in 1..(k - 1) : ~ScanFor(j, id)

\* C15: the list of discovered devices has at most one entry per device
\* identifier, and the entry of an identifier is built from the first
\* received reply that carries it: that reply's address resolution, sku and
\* mac, whatever later replies with the identifier say and wherever they
\* come from.
C15_DedupFirstWins ==
  /\ \A i, j \in 1..Len(devices) :
       devices[i].device = devices[j].device => i = j
  /\ \A i \in 1..Len(devices) :
       /\ devices[i].device # ""
       /\ \E k \in 1..Len(heard) : ScanFor(k, devices[i].device)
       /\ LET first == heard[FirstScanFor(devices[i].device)]
              data == first.body.val.msg.data
          IN /\ devices[i].ip = DeviceIp(data, first.src)
             /\ devices[i].sku = Get(data, "sku", "")
             /\ devices[i].mac = Get(data, "mac", None)

\* Device d1 answered first from ipB without declaring an address, then
\* from ipA declaring one: one entry, with the first reply's address and sku.
C15_Witness ==
  /\ dpc = "returned"
  /\ Len(heard) = 2
  /\ heard[1] = [src |-> "ipB", body |-> ScanReply(ScanD1NoIp)]
  /\ heard[2] = [src |-> "ipA", body |-> ScanReply(ScanD1)]
  /\ Len(devices) = 1
  /\ devices[1].ip = "ipB"
  /\ devices[1].sku = "H6076"

\* C16 (as stated): the address of every entry is the declared ip field of
\* the reply it was built from whenever the payload has that field, and the
\* sender's address otherwise.
C16_DeclaredIpWhenPresent ==
  \A i \in 1..Len(devices) :
    LET first == heard[FirstScanFor(devices[i].device)]
        data == first.body.val.msg.data
    IN devices[i].ip = IF "ip" \in DOMAIN data THEN data.ip ELSE first.src

\* C16 (amended): the address of every entry is the declared ip field of
\* the reply it was built from when the payload has a non-empty one, and the
\* sender's address otherwise; it is never empty.
C16_AddressResolved ==
  \A i \in 1..Len(devices) :
    LET first == heard[FirstScanFor(devices[i].device)]
        data == first.body.val.msg.data
    IN /\ devices[i].ip # ""
       /\ devices[i].ip # None
       /\ devices[i].ip =
            IF "ip" \in DOMAIN data /\ data.ip # "" THEN data.ip ELSE first.src

\* One device declared an address that is not the sender's, another
\* declared none: the first entry has the declared address, the second the
\* sender's.
C16_Witness ==
  /\ dpc = "returned"
  /\ Len(devices) = 2
  /\ heard[1] = [src |-> "ipA", body |-> ScanReply(ScanD2)]
  /\ devices[1].ip = "ipB"
  /\ heard[2] = [src |-> "ipA", body |-> ScanReply(ScanD1NoIp)]
  /\ devices[2].ip = "ipA"

\* C17: a datagram that does not decode or is not a scan reply does not end
\* discover_devices: the call never raises, and when it has returned after
\* a successful send, every identifier carried by a scan reply it received
\* has its entry.
C17_NoiseSkipped ==
  /\ dpc # "raised"
  /\ dpc = "returned" =>
       \A k \in 1..Len(heard) :
         (/\ Classify(heard[k].body) = "scan"
          /\ DeviceId(heard[k].body.val.msg.data) # "")
           => \E i \in 1..Len(devices) :
                devices[i].device = DeviceId(heard[k].body.val.msg.data)

\* C18: a task has a socket only while its exchange is in flight, and a
\* socket bound to the listen port only between the bind and the end of a
\* status-query attempt: when the exchange has ended, by a return or by an
\* exception, its socket is closed.
C18_SocketsClosed ==
  \A t \in Tasks :
    /\ pc[t] \notin ExchangePcs => sock[t] = "none"
    /\ sock[t] = "bound" => pc[t] \in {"sq_send", "sq_recv"}
    /\ pc[t] \in ExchangePcs => sock[t] # "none"

\* A status query ended with the decode error of a malformed reply, one of
\* another task with a state after two failed attempts, a command was sent
\* in between, and no socket is open.
C18_Witness ==
  /\ gsResult["pollA"] = "raise"
  /\ gsResult["userA"] = "state"
  /\ nfailed["userA"] = 2
  /\ cmdRet["userA"] = "true"
  /\ \A t \in Tasks : pc[t] = "idle" /\ sock[t] = "none"

\* C19: the lock of a client is held only by a task with an exchange in
\* flight, and every get_device_state call ends: a task inside one is
\* eventually outside it, with the coordinator's refresh completed, whether
\* or not a datagram ever arrives.
C19_QueryTerminates ==
  /\ [](\A c \in Clients :
          lock[c] # NoTask => pc[lock[c]] \in ExchangePcs)
  /\ \A t \in DeviceATasks : (pc[t] \in QueryPcs) ~> (pc[t] = "idle")

\* A poll of a silent device has completed: three attempts timed out, the
\* lock is free and the local state is published.
C19_Witness ==
  /\ gsResult["pollA"] = "none"
  /\ nfailed["pollA"] = 3
  /\ pc["pollA"] = "idle"
  /\ lock["A"] = NoTask
  /\ published["A"] = local["A"]
  /\ pc["userA"] = "idle"

\* C20: set_brightness(b) puts on the wire a brightness command whose value
\* is 1 for b below 1, 100 for b above 100 and b otherwise (or nothing, when
\* the send fails).
C20_BrightnessClamped ==
  [][\A t \in UserTasks :
       (op[t].kind = "set_brightness" /\ pc[t] = "cmd_send" /\ pc'[t] = "idle")
         => LET b == op[t].kwargs.brightness
                want == [cmd |-> "brightness",
                         value |-> IF b < 1 THEN 1 ELSE IF b > 100 THEN 100 ELSE b]
            IN /\ cmd[t] = want
               /\ sent'[ClientOf(t)] \in {sent[ClientOf(t)], want}]_vars

\* Two calls were made, the last one set_brightness(500), and the value
\* last put on the wire is 100.
C20_Witness ==
  /\ nOps["userA"] = 2
  /\ op["userA"].kind = "set_brightness"
  /\ op["userA"].kwargs.brightness = 500
  /\ pc["userA"] = "idle"
  /\ sent["A"] = [cmd |-> "brightness", value |-> 100]

\* C21: set_color(r, g, b) puts on the wire a colorwc command in which each
\* channel is its own input brought into 0..255, whatever the other two
\* channels are, and colorTemInKelvin is 0 (or nothing, when the send
\* fails).
C21_ColorClamped ==
  [][\A t \in UserTasks :
       (op[t].kind = "set_color" /\ pc[t] = "cmd_send" /\ pc'[t] = "idle")
         => LET in == op[t].kwargs.rgb_color
                ch(x) == IF x < 0 THEN 0 ELSE IF x > 255 THEN 255 ELSE x
                want == [cmd |-> "colorwc",
                         color |-> <<ch(in[1]), ch(in[2]), ch(in[3])>>,
                         colorTemInKelvin |-> 0]
            IN /\ cmd[t] = want
               /\ sent'[ClientOf(t)] \in {sent[ClientOf(t)], want}]_vars

\* set_color(-1, 128, 256) was called and (0, 128, 255) is on the wire.
C21_Witness ==
  /\ nOps["userA"] = 1
  /\ op["userA"].kind = "set_color"
  /\ op["userA"].kwargs.rgb_color = <<0 - 1, 128, 256>>
  /\ pc["userA"] = "idle"
  /\ sent["A"] = [cmd |-> "colorwc", color |-> <<0, 128, 255>>,
                   colorTemInKelvin |-> 0]

\* C22: set_color_temp(k) puts on the wire a colorwc command whose
\* colorTemInKelvin is 2000 for k below 2000, 9000 for k above 9000 and k
\* otherwise, and whose colour is (0,0,0) (or nothing, when the send fails).
C22_KelvinClamped ==
  [][\A t \in UserTasks :
       (op[t].kind = "set_color_temp" /\ pc[t] = "cmd_send" /\ pc'[t] = "idle")
         => LET k == op[t].kwargs.color_temp_kelvin
                want == [cmd |-> "colorwc", color |-> <<0, 0, 0>>,
                         colorTemInKelvin |->
                           IF k < 2000 THEN 2000 ELSE IF k > 9000 THEN 9000 ELSE k]
            IN /\ cmd[t] = want
               /\ sent'[ClientOf(t)] \in {sent[ClientOf(t)], want}]_vars

\* set_color_temp(1999) was called and 2000 is on the wire.
C22_Witness ==
  /\ nOps["userA"] = 1
  /\ op["userA"].kind = "set_color_temp"
  /\ op["userA"].kwargs.color_temp_kelvin = 1999
  /\ pc["userA"] = "idle"
  /\ sent["A"] = [cmd |-> "colorwc", color |-> <<0, 0, 0>>,
                   colorTemInKelvin |-> 2000]

\* C23: the state get_device_state returns for a devStatus reply with a
\* data payload has, field by field, the reported value where the payload
\* has the field and the default where it has not (off, 100, 255 for each
\* missing channel, 0); no subset of missing fields makes the call raise.
C23_ParseDefaults ==
  /\ \A t \in Tasks : gsResult[t] # "raise"
  /\ \A c \in Clients :
       lastReply[c] # NoReply =>
         LET data == lastReply[c].body.val.msg.data
             col == IF "color" \in DOMAIN data THEN data.color ELSE EmptyDict
         IN /\ lastNet[c].on =
                 IF "onOff" \in DOMAIN data THEN data.onOff = 1 ELSE FALSE
            /\ lastNet[c].brightness =
                 IF "brightness" \in DOMAIN data THEN data.brightness ELSE 100
            /\ lastNet[c].color[1] = IF "r" \in DOMAIN col THEN col.r ELSE 255
            /\ lastNet[c].color[2] = IF "g" \in DOMAIN col THEN col.g ELSE 255
            /\ lastNet[c].color[3] = IF "b" \in DOMAIN col THEN col.b ELSE 255
            /\ lastNet[c].color_temp_kelvin =
                 IF "colorTemInKelvin" \in DOMAIN data
                   THEN data.colorTemInKelvin ELSE 0

\* A reply that reports only the green channel and the power state off was
\* parsed on the second attempt: the other fields have their defaults.
C23_Witness ==
  /\ gsResult["pollA"] = "state"
  /\ nfailed["pollA"] = 1
  /\ lastReply["A"].body.val.msg.data = [onOff |-> 0, color |-> [g |-> 10]]
  /\ local["A"] = DeviceState(FALSE, 100, <<255, 10, 255>>, 0)
  /\ published["A"] = local["A"]

\* C24: a state get_device_state returned was parsed from a datagram sent by
\* the address of the client's device; an attempt that receives a datagram
\* from another address ends there as a failed attempt: nothing of the
\* datagram is returned, stored or published, and the call does not raise.
C24_ForeignReplyDiscarded ==
  [][/\ \A c \in Clients :
          lastReply'[c] # NoReply => lastReply'[c].src = Host(c)
     /\ \A t \in Tasks :
          (pc[t] = "sq_recv" /\ pc'[t] # "sq_recv" /\ foreign'[t])
            => /\ nfailed'[t] = nfailed[t] + 1
               /\ gsResult'[t] \in {"pending", "none"}
               /\ local'[ClientOf(t)] = local[ClientOf(t)]
               /\ lastNet'[ClientOf(t)] = lastNet[ClientOf(t)]
               /\ lastReply'[ClientOf(t)] = lastReply[ClientOf(t)]
               /\ sock'[t] = "none"]_vars

\* The first attempt of client A's poll received a datagram from another
\* address and failed; its second attempt is under way and no state has
\* been adopted.
C24_Witness ==
  /\ foreign["pollA"]
  /\ pc["pollA"] = "gs_lock"
  /\ attempt["pollA"] = 1
  /\ nfailed["pollA"] = 1
  /\ lastReply["A"] = NoReply
  /\ local["A"] = InitialLocalState

\* C25: inside one attempt the query is sent, and the reply awaited, only
\* from a socket bound to the listen port. An attempt whose bind fails sends
\* nothing: it ends at once as one failed attempt of the call, without
\* another bind or a new attempt started in the same step; the call goes on
\* to its next attempt, or returns NotAvailable when that was the last of
\* its MAX_RETRIES attempts.
C25_BindBeforeSend ==
  [][\A t \in Tasks :
       /\ pc'[t] \in {"sq_send", "sq_recv"} => sock'[t] = "bound"
       /\ (pc'[t] = "sq_send" /\ pc[t] # "sq_send") => pc[t] = "sq_bind"
       /\ (pc'[t] = "sq_recv" /\ pc[t] # "sq_recv") => pc[t] = "sq_send"
       /\ (pc[t] = "sq_bind" /\ pc'[t] # "sq_bind" /\ sock'[t] # "bound")
            => /\ sock'[t] = "none"
               /\ lock'[ClientOf(t)] = NoTask
               /\ nfailed'[t] = nfailed[t] + 1
               /\ tried'[t] = tried[t]
               /\ Len(tried[t]) <= MAX_RETRIES
               /\ IF Len(tried[t]) < MAX_RETRIES
                    THEN pc'[t] = "gs_lock" /\ attempt'[t] = attempt[t] + 1
                    ELSE pc'[t] = "idle" /\ gsResult'[t] = "none"]_vars

\* A call returned NotAvailable after three failed attempts none of which
\* received a datagram, as after three failed binds, and the latch is set.
C25_Witness ==
  /\ gsResult["pollA"] = "none"
  /\ tried["pollA"] = <<2, 4, 6>>
  /\ nfailed["pollA"] = 3
  /\ ~foreign["pollA"]
  /\ ~supports["A"]
  /\ sock["pollA"] = "none"
  /\ dataSet["A"]

\* C26: when discover_devices has ended, by returning or by an exception
\* raised while a reply was handled, its socket is closed and the listen
\* port released.
C26_DiscoverySocketClosed ==
  dpc \in {"returned", "raised"} => dsock = "none"

\* C27: a poll of the coordinator always completes with a DeviceState:
\* whatever the status query ended with (a state, NotAvailable, an
\* exception) and whether or not the latch is set, once a poll has completed
\* the coordinator has data, and the published state is a DeviceState, never
\* the absent value.
C27_PollNeverFails ==
  /\ \A t \in Tasks :
       (gsResult[t] \in {"state", "none", "raise"} /\ pc[t] \notin QueryPcs)
         => dataSet[ClientOf(t)]
  /\ \A c \in Clients :
       dataSet[c] =>
         /\ published[c] # NoState
         /\ DOMAIN published[c] = DOMAIN InitialLocalState
         /\ published[c].on \in BOOLEAN

\* The first poll ended with an exception and a later refresh with
\* NotAvailable: both have completed and the state published is the initial
\* local state.
C27_Witness ==
  /\ gsResult["pollA"] = "raise"
  /\ gsResult["userA"] = "none"
  /\ ~supports["A"]
  /\ \A t \in DeviceATasks : pc[t] = "idle"
  /\ published["A"] = InitialLocalState
  /\ updates["A"] = <<>>

\* C28: the state the coordinator holds always has a brightness in 1..100,
\* every colour channel in 0..255, and not a kelvin above 0 together with a
\* non-black colour.
C28_StateValueInvariant ==
  \A c \in Clients :
    /\ local[c].brightness \in 1..100
    /\ \A i \in 1..3 : local[c].color[i] \in 0..255
    /\ Exclusive(local[c])

====
